---- MODULE Spec2Model ----
(***************************************************************************)
(* A model of src/windows/views/timeline_webview.py: the TimelineWebView   *)
(* widget of the video editor.  The widget's handlers are the actions; the *)
(* project's clip and transition lists, the widget's own fields and the    *)
(* calls a handler makes on its collaborators (the JavaScript timeline,    *)
(* the main window, the query objects) are the state.                      *)
(*                                                                         *)
(* Python floats are modelled as exact rationals [n, d] in lowest terms.   *)
(***************************************************************************)
EXTENDS Integers, Sequences, FiniteSets, TLC

VARIABLES
    clips,                  \* the project's "clips" list (classes.query.Clip)
    transitions,            \* the project's "effects" list (classes.query.Transition)
    fps,                    \* the project's "fps" setting: [num, den]
    generated,              \* how many ids project.generate_id() has handed out
    last_position_frames,   \* self.last_position_frames
    new_item,               \* self.new_item
    item_type,              \* self.item_type
    op,                     \* the handler that ran last, with its arguments
    calls,                  \* the calls that handler made, in order
    raised,                 \* whether that handler ended by an exception
    sync_calls,             \* every LoadJson / ApplyJsonDiff evaluated so far
    delivered,              \* every update action delivered to changed() so far
    previews,               \* every frame passed to window.previewFrame so far
    drag,                   \* the drag now over the widget: <<its event>>, or <<>>
    window                  \* self.window: its zoom slider and its selection lists

vars == <<clips, transitions, fps, generated, last_position_frames, new_item,
          item_type, op, calls, raised, sync_calls, delivered, previews, drag,
          window>>

(***************************************************************************)
(* Bounds of the model.                                                    *)
(***************************************************************************)
MaxActions == 3
MaxFrame == 2
MaxPreviews == 3

(***************************************************************************)
(* Program constants.                                                      *)
(***************************************************************************)
MENU_FADE_NONE == 0
MENU_FADE_IN_FAST == 1
MENU_FADE_IN_SLOW == 2
MENU_FADE_OUT_FAST == 3
MENU_FADE_OUT_SLOW == 4
MENU_FADE_IN_OUT_FAST == 5
MENU_FADE_IN_OUT_SLOW == 6

MENU_ROTATE_NONE == 0
MENU_ROTATE_90_RIGHT == 1
MENU_ROTATE_90_LEFT == 2
MENU_ROTATE_180_FLIP == 3

MENU_LAYOUT_NONE == 0
MENU_LAYOUT_CENTER == 1
MENU_LAYOUT_TOP_LEFT == 2
MENU_LAYOUT_TOP_RIGHT == 3
MENU_LAYOUT_BOTTOM_LEFT == 4
MENU_LAYOUT_BOTTOM_RIGHT == 5
MENU_LAYOUT_ALL_WITH_ASPECT == 6
MENU_LAYOUT_ALL_WITHOUT_ASPECT == 7

\* Python's None: as self.item_type, and as self.last_position_frames (no frame)
None == "None"
NoFrame == -1

(***************************************************************************)
(* Floats as rationals.                                                    *)
(***************************************************************************)
RECURSIVE GCD(_, _)
GCD(a, b) == IF b = 0 THEN a ELSE GCD(b, a % b)

Abs(x) == IF x < 0 THEN -x ELSE x

\* n / d in lowest terms with a positive denominator (d /= 0)
Rat(n, d) ==
    LET g == GCD(Abs(n), Abs(d))
        s == IF d < 0 THEN -1 ELSE 1
    IN  [n |-> (s * n) \div g, d |-> (s * d) \div g]

float(i) == Rat(i, 1)
RMul(a, b) == Rat(a.n * b.n, a.d * b.d)
RDiv(a, b) == Rat(a.n * b.d, a.d * b.n)
RAdd(a, b) == Rat(a.n * b.d + b.n * a.d, a.d * b.d)
RSub(a, b) == Rat(a.n * b.d - b.n * a.d, a.d * b.d)
RLe(a, b) == a.n * b.d <= b.n * a.d
RLt(a, b) == a.n * b.d < b.n * a.d
RMin(a, b) == IF RLe(a, b) THEN a ELSE b
RMax(a, b) == IF RLe(b, a) THEN a ELSE b

(***************************************************************************)
(* The calls a handler makes.  A call is [call, args]; eval_js(code) is    *)
(* recorded by the JavaScript function the code invokes on the timeline's  *)
(* scope and the arguments it passes.                                      *)
(***************************************************************************)
Call(name, args) == [call |-> name, args |-> args]

Js(fn, args) == Call("eval_js." \o fn, args)

CallsNamed(cs, name) == SelectSeq(cs, LAMBDA c : c.call = name)

IsSync(c) == c.call \in {"eval_js.LoadJson", "eval_js.ApplyJsonDiff"}

(***************************************************************************)
(* JSON.  A dictionary is a function from its keys; the text of one, as a  *)
(* JavaScript caller passes it, is [text |-> dictionary].                  *)
(***************************************************************************)
JsonText(d) == [text |-> d]
isinstance_dict(x) == "text" \notin DOMAIN x
json_loads(t) == t.text

\* dict.update: the keys of new override those of old
Merge(old, new) ==
    [k \in DOMAIN old \cup DOMAIN new |-> IF k \in DOMAIN new THEN new[k] ELSE old[k]]

\* d with d[k] = v
With(d, k, v) == Merge(d, [x \in {k} |-> v])

\* openshot.Point(x, y, openshot.BEZIER).Json(), parsed
Point(x, y) == [co |-> [X |-> x, Y |-> y], interpolation |-> "BEZIER"]

\* {"Points": [p]}
OnePoint(x, y) == [Points |-> <<Point(x, y)>>]

(***************************************************************************)
(* The project's lists and the query objects on them (classes.query).      *)
(* A world is what a handler reads and changes while it runs: the lists,   *)
(* the ids generated, the calls made so far and whether it has raised.     *)
(***************************************************************************)
World == [clips |-> clips, transitions |-> transitions, generated |-> generated,
          calls |-> <<>>, raised |-> FALSE]

Did(w, c) == [w EXCEPT !.calls = Append(@, c)]

\* project.generate_id(): an id no item carries yet
generate_id(w) == "G" \o ToString(w.generated + 1)

\* Clip.get(id=...) / Transition.get(id=...): the place of the first item with
\* that id in the list, 0 for None
get(items, id) ==
    IF \E i \in 1 .. Len(items) : items[i]["id"] = id
    THEN CHOOSE i \in 1 .. Len(items) :
            /\ items[i]["id"] = id
            /\ \A j \in 1 .. i - 1 : items[j]["id"] # id
    ELSE 0

\* save() of the query object found at place `existing` (0: a new object)
\* carrying `data`: a new object is inserted under a generated id, a found one
\* has its item updated with the keys of data
save_items(items, existing, data, newid) ==
    IF existing = 0
    THEN Append(items, With(data, "id", newid))
    ELSE [items EXCEPT ![existing] = Merge(@, data)]

Clip_save(w, existing, data) ==
    LET w1 == Did(w, Call("Clip.save", <<data>>))
    IN  [w1 EXCEPT !.clips = save_items(w.clips, existing, data, generate_id(w)),
                   !.generated = IF existing = 0 THEN @ + 1 ELSE @]

Transition_save(w, existing, data) ==
    LET w1 == Did(w, Call("Transition.save", <<data>>))
    IN  [w1 EXCEPT !.transitions = save_items(w.transitions, existing, data, generate_id(w)),
                   !.generated = IF existing = 0 THEN @ + 1 ELSE @]

(***************************************************************************)
(* update_clip_data(clip_json, only_basic_props)                           *)
(***************************************************************************)
BasicProps == {"id", "layer", "position", "start", "end"}

clip_record_full(clip_data, only_basic_props) == clip_data

clip_record(clip_data, only_basic_props) ==
    IF only_basic_props
    THEN [k \in BasicProps |-> clip_data[k]]
    ELSE clip_data

\* update_clip_data that never searches the project: every call saves a new clip
update_clip_data_always_new(w, clip_json, only_basic_props) ==
    LET clip_data == IF ~isinstance_dict(clip_json) THEN json_loads(clip_json)
                     ELSE clip_json
        w1 == Clip_save(w, 0, clip_record(clip_data, only_basic_props))
    IN  Did(w1, Call("preview_thread.refreshFrame", <<>>))

update_clip_data(w, clip_json, only_basic_props) ==
    LET clip_data == IF ~isinstance_dict(clip_json) THEN json_loads(clip_json)
                     ELSE clip_json
        existing_clip == get(w.clips, clip_data["id"])
        w1 == Clip_save(w, existing_clip, clip_record(clip_data, only_basic_props))
    IN  Did(w1, Call("preview_thread.refreshFrame", <<>>))

(***************************************************************************)
(* Transitions: update_transition_data and its callers.                    *)
(***************************************************************************)
\* float(fps["num"]) / float(fps["den"])
fps_float == RDiv(float(fps.num), float(fps.den))

\* brightness = openshot.Keyframe(); brightness.AddPoint(1, 1.0, BEZIER);
\* brightness.AddPoint(last_frame, -1.0, BEZIER); json.loads(brightness.Json())
brightness_Json(last_frame) ==
    [Points |-> <<Point(float(1), float(1)), Point(last_frame, float(-1))>>]

\* json.loads(openshot.Keyframe(3.0).Json())
contrast_Json == OnePoint(float(1), float(3))

transition_record_always(transition_data, only_basic_props) ==
    With(transition_data, "brightness",
         brightness_Json(RMul(RSub(transition_data["end"], transition_data["start"]),
                              fps_float)))

transition_record(transition_data, only_basic_props) ==
    LET duration == RSub(transition_data["end"], transition_data["start"])
        brightness == brightness_Json(RMul(duration, fps_float))
    IN  IF only_basic_props
        THEN With([k \in BasicProps |-> transition_data[k]], "brightness", brightness)
        ELSE transition_data

update_transition_data(w, transition_json, only_basic_props) ==
    LET transition_data == IF ~isinstance_dict(transition_json)
                           THEN json_loads(transition_json)
                           ELSE transition_json
        existing_item == get(w.transitions, transition_data["id"])
    IN  Transition_save(w, existing_item,
                        transition_record(transition_data, only_basic_props))

\* json.loads(openshot.QtImageReader(path).Json())
reader_Json(path) == [path |-> path]

add_missing_transition(w, transition_json) ==
    LET transition_details == json_loads(transition_json)
        transitions_data ==
            [id |-> generate_id(w),
             layer |-> transition_details["layer"],
             title |-> "Transition",
             type |-> "Mask",
             position |-> transition_details["position"],
             start |-> transition_details["start"],
             end |-> transition_details["end"],
             brightness |-> brightness_Json(RMul(transition_details["end"], fps_float)),
             contrast |-> contrast_Json,
             reader |-> reader_Json("transitions/common/fade.svg"),
             replace_image |-> FALSE]
    IN  update_transition_data([w EXCEPT !.generated = @ + 1], transitions_data, FALSE)

\* eval_js(GetJavaScriptTrack(y)) and eval_js(GetJavaScriptPosition(x)), which
\* return what the JavaScript timeline answers: js_track and js_position
ask_track_and_position(w, position, js_track, js_position) ==
    Did(Did(w, Js("GetJavaScriptTrack", <<position.y>>)),
        Js("GetJavaScriptPosition", <<position.x>>))

addTransition(w, file_ids, position, js_track, js_position) ==
    LET w1 == ask_track_and_position(Did(w, Call("addTransition", <<file_ids>>)),
                                     position, js_track, js_position)
        top_layer == js_track
        transitions_data ==
            [id |-> generate_id(w1),
             layer |-> top_layer,
             title |-> "Transition",
             type |-> "Mask",
             position |-> js_position,
             start |-> float(0),
             end |-> float(10),
             brightness |-> brightness_Json(RMul(float(10), fps_float)),
             contrast |-> contrast_Json,
             reader |-> reader_Json(file_ids[1]),
             replace_image |-> FALSE]
    IN  update_transition_data([w1 EXCEPT !.generated = @ + 1], transitions_data, FALSE)

\* the point at new_index of the copy takes the Y values of `point`
reversed_point(copied, point) ==
    LET p == [copied EXCEPT !.co.Y = point.co.Y]
    IN  IF "handle_left" \in DOMAIN point
        THEN [p EXCEPT !.handle_left.Y = point.handle_left.Y,
                       !.handle_right.Y = point.handle_right.Y]
        ELSE p

\* a loop that writes into the list it is reading: the points of the second
\* half are read after the first half has overwritten them
reversed_points_in_place(points) ==
    LET n == Len(points)
    IN  [j \in 1 .. n |->
            IF 2 * j <= n + 1 THEN points[j]
            ELSE reversed_point(points[j], points[n + 1 - j])]

\* the loop over tran.data["brightness"]["Points"]: the points of the deep
\* copy after it
reversed_points(points) ==
    LET n == Len(points)
    IN  [j \in 1 .. n |-> reversed_point(points[j], points[n + 1 - j])]

Reverse_Transition_Triggered(w, tran_id) ==
    LET tran == w.transitions[get(w.transitions, tran_id)]
        tran_data_copy ==
            With(tran, "brightness",
                 [tran["brightness"] EXCEPT !.Points =
                    reversed_points(tran["brightness"].Points)])
    IN  update_transition_data(w, tran_data_copy, FALSE)

(***************************************************************************)
(* Clips as the project holds them.                                        *)
(***************************************************************************)
\* openshot.Clip(path).Json(), parsed, for a file of the given duration
Clip_Json(duration) ==
    [id |-> "", layer |-> 0, position |-> float(0), start |-> float(0),
     end |-> duration, duration |-> duration,
     alpha |-> OnePoint(float(1), float(0)),
     rotation |-> OnePoint(float(1), float(0)),
     gravity |-> "GRAVITY_CENTER", scale |-> "SCALE_FIT",
     scale_x |-> OnePoint(float(1), float(1)),
     scale_y |-> OnePoint(float(1), float(1)),
     location_x |-> OnePoint(float(1), float(0)),
     location_y |-> OnePoint(float(1), float(0)),
     effects |-> <<>>,
     reader |-> [duration |-> duration]]

\* a clip of the project: on a layer, at a position, showing [start, end] of its file
ProjectClip(id, layer, position, start, end) ==
    Merge(Clip_Json(end),
          [id |-> id, layer |-> layer, position |-> position, start |-> start, end |-> end])

(***************************************************************************)
(* Drag and drop: addClip, addEffect and the three event handlers.  An     *)
(* event is [hasUrls, hasText, html, text, pos]: its mime data and place;   *)
(* its text is that of a JSON value, [text |-> value], or any other text,  *)
(* [raw |-> characters].                                                   *)
(***************************************************************************)
\* the project's files (classes.query.File): video, image, audio
Files ==
    <<[id |-> "F1", media_type |-> "video", path |-> <<"/media", "a.mp4">>,
       duration |-> float(4)],
      [id |-> "F2", media_type |-> "image", path |-> <<"/media", "b.png">>,
       duration |-> float(3600)],
      [id |-> "F3", media_type |-> "audio", path |-> <<"/media", "c.mp3">>,
       duration |-> float(6), start |-> float(1), end |-> float(3)]>>

\* self.settings.get("default-image-length")
default_image_length == float(8)

addClip(w, data, position, js_track, js_position) ==
    LET file_id == data[1]
        file == Files[get(Files, file_id)]
        thumb_path == IF file["media_type"] = "video" \/ file["media_type"] = "image"
                      THEN <<"THUMBNAIL_PATH", file["id"] \o ".png">>
                      ELSE <<"PATH", "images", "AudioThumbnail.png">>
        filename == file["path"][2]
        c0 == Clip_Json(file["duration"])
        c1 == Merge(c0, [file_id |-> file["id"], title |-> filename, image |-> thumb_path])
        c2 == IF "start" \in DOMAIN file THEN With(c1, "start", file["start"]) ELSE c1
        c3 == IF "end" \in DOMAIN file THEN With(c2, "end", file["end"]) ELSE c2
        w1 == ask_track_and_position(Did(w, Call("addClip", <<data>>)),
                                     position, js_track, js_position)
        c4 == Merge(c3, [layer |-> js_track, position |-> js_position,
                         duration |-> c3["reader"].duration])
        new_clip == IF file["media_type"] = "image"
                    THEN With(c4, "end", default_image_length)
                    ELSE c4
    IN  update_clip_data(w1, new_clip, FALSE)

\* the effect class addEffect instantiates for a name, None for any other name
effect_class(name) ==
    CASE name = "blur" -> "Blur"
      [] name = "brightness" -> "Brightness"
      [] name = "chromakey" -> "ChromaKey"
      [] name = "deinterlace" -> "Deinterlace"
      [] name = "mask" -> "Mask"
      [] name = "negate" -> "Negate"
      [] name = "saturation" -> "Saturation"
      [] OTHER -> None

\* a test of the clip's span alone
under_drop_span_only(clip, js_position) ==
    /\ RLe(clip["position"], js_position)
    /\ RLe(js_position, RAdd(clip["position"], RSub(clip["end"], clip["start"])))

\* whether the drop point is on the clip
under_drop(clip, js_position) ==
    \/ js_position = float(0)
    \/ /\ RLe(clip["position"], js_position)
       /\ RLe(js_position, RAdd(clip["position"], RSub(clip["end"], clip["start"])))

\* the loop of addEffect over possible_clips, from the i-th clip of the list
\* Clip.filter(layer=closest_layer) returned.  A name without an effect class
\* leaves effect None, and effect.Id(...) raises on the first clip under the
\* drop point; so does a clip without "effects" or "reader".
RECURSIVE addEffect_loop(_, _, _, _, _, _)
addEffect_loop(w, possible_clips, i, name, closest_layer, js_position) ==
    IF i > Len(possible_clips) \/ w.raised THEN w
    ELSE LET clip == possible_clips[i]
         IN  IF clip["layer"] = closest_layer /\ under_drop(clip, js_position)
             THEN IF \/ effect_class(name) = None
                     \/ "effects" \notin DOMAIN clip
                     \/ "reader" \notin DOMAIN clip
                  THEN [w EXCEPT !.raised = TRUE]
                  ELSE LET effect_json == [type |-> effect_class(name),
                                           id |-> generate_id(w)]
                           appended == With(clip, "effects",
                                            Append(clip["effects"], effect_json))
                           popped == [k \in DOMAIN appended \ {"reader"} |-> appended[k]]
                           w1 == update_clip_data([w EXCEPT !.generated = @ + 1],
                                                  popped, FALSE)
                       IN  addEffect_loop(w1, possible_clips, i + 1, name,
                                          closest_layer, js_position)
             ELSE addEffect_loop(w, possible_clips, i + 1, name,
                                 closest_layer, js_position)

addEffect(w, effect_names, position, js_track, js_position) ==
    LET name == effect_names[1]
        w1 == ask_track_and_position(Did(w, Call("addEffect", <<effect_names>>)),
                                     position, js_track, js_position)
        closest_layer == js_track + 1
    IN  addEffect_loop(w1, w.clips, 1, name, closest_layer, js_position)

\* json.loads accepts the text of a JSON value and raises on any other text
is_json(text) == "text" \in DOMAIN text

\* "if not self.new_item and not event.mimeData().hasUrls() and event.mimeData().hasText()"
starts_item(is_new_item, event) == ~is_new_item /\ ~event.hasUrls /\ event.hasText

\* "create the item"
create_item_also_effect(w, type, data, position, js_track, js_position) ==
    IF type = "clip" THEN addClip(w, data, position, js_track, js_position)
    ELSE IF type = "transition" THEN addTransition(w, data, position, js_track, js_position)
    ELSE IF type = "effect" THEN addEffect(w, data, position, js_track, js_position)
    ELSE w

create_item(w, type, data, position, js_track, js_position) ==
    IF type = "clip" THEN addClip(w, data, position, js_track, js_position)
    ELSE IF type = "transition" THEN addTransition(w, data, position, js_track, js_position)
    ELSE w

dragEnterEvent_world(w, is_new_item, event, js_track, js_position) ==
    IF starts_item(is_new_item, event)
    THEN IF ~is_json(event.text)
         THEN [w EXCEPT !.raised = TRUE]
         ELSE LET w1 == create_item(w, event.html, json_loads(event.text), event.pos,
                                    js_track, js_position)
              IN  IF w1.raised THEN w1 ELSE Did(w1, Call("event.accept", <<>>))
    ELSE Did(w, Call("event.accept", <<>>))

dragMoveEvent_world(w, type, event) ==
    LET pos == event.pos
        code == IF type = "clip" THEN Js("MoveItem", <<pos.x, pos.y, "clip">>)
                ELSE IF type = "transition"
                     THEN Js("MoveItem", <<pos.x, pos.y, "transition">>)
                     ELSE Js("", <<>>)
        w1 == Did(w, code)
    IN  IF code.call # "eval_js." THEN Did(w1, Call("event.accept", <<>>)) ELSE w1

dropEvent_world(w, type, event, js_track, js_position) ==
    LET w1 == Did(w, Call("event.accept", <<>>))
    IN  IF ~is_json(event.text) THEN [w1 EXCEPT !.raised = TRUE]
        ELSE IF type = "clip" THEN Did(w1, Js("UpdateRecentItemJSON", <<"clip">>))
        ELSE IF type = "transition"
             THEN Did(w1, Js("UpdateRecentItemJSON", <<"transition">>))
        ELSE IF type = "effect"
             THEN addEffect(w1, json_loads(event.text), event.pos, js_track, js_position)
        ELSE w1

(***************************************************************************)
(* The clip menu: Layout_Triggered and show_all_clips.                     *)
(***************************************************************************)
\* int(sqrt(n))
RECURSIVE int_sqrt_from(_, _)
int_sqrt_from(n, r) == IF (r + 1) * (r + 1) > n THEN r ELSE int_sqrt_from(n, r + 1)
int_sqrt(n) == int_sqrt_from(n, 0)

\* int(x) of a float x >= 0
int(x) == x.n \div x.d

\* a selection that reaches a whole second to either side
nearby_wider(items, start_position) ==
    SelectSeq([i \in 1 .. Len(items) |-> i],
              LAMBDA i : /\ RLe(RSub(start_position, float(1)), items[i]["position"])
                         /\ RLe(items[i]["position"], RAdd(start_position, float(1))))

\* "Get list of nearby clips": the places in Clip.filter() of the clips whose
\* position is within 0.5 of start_position, in the list's order
nearby(items, start_position) ==
    SelectSeq([i \in 1 .. Len(items) |-> i],
              LAMBDA i : /\ RLe(RSub(start_position, Rat(1, 2)), items[i]["position"])
                         /\ RLe(items[i]["position"], RAdd(start_position, Rat(1, 2))))

\* "Determine how many clips per row"
clips_per_row_floor(number_of_clips, number_of_rows) ==
    int(RDiv(float(number_of_clips), float(number_of_rows)))

clips_per_row(number_of_clips, number_of_rows) ==
    LET max_clips_on_row == RDiv(float(number_of_clips), float(number_of_rows))
    IN  IF RLt(float(int(max_clips_on_row)), max_clips_on_row)
        THEN int(RAdd(max_clips_on_row, float(1)))
        ELSE int(max_clips_on_row)

\* "Modify clip layout settings" of the clip in the cell (row, col)
arranged(data, stretch, row, col, width, height) ==
    Merge(data,
          [gravity |-> "GRAVITY_TOP_LEFT",
           scale |-> IF stretch THEN "SCALE_STRETCH" ELSE "SCALE_FIT",
           scale_x |-> OnePoint(float(1), width),
           scale_y |-> OnePoint(float(1), height),
           location_x |-> OnePoint(float(1), RMul(float(col), width)),
           location_y |-> OnePoint(float(1), RMul(float(row), height))])

\* the two loops of show_all_clips, from the cell (row, col) on: available_clips
\* holds the clips as Clip.filter() returned them
RECURSIVE show_all_cells(_, _, _, _, _, _, _, _)
show_all_cells(w, available_clips, stretch, number_of_rows, max_clips_on_row, row, col, clip_index) ==
    IF row >= number_of_rows THEN w
    ELSE IF col >= max_clips_on_row
    THEN show_all_cells(w, available_clips, stretch, number_of_rows, max_clips_on_row,
                        row + 1, 0, clip_index)
    ELSE IF clip_index < Len(available_clips)
    THEN LET height == RDiv(float(1), float(number_of_rows))
             width == RDiv(float(1), float(max_clips_on_row))
             selected_clip == arranged(available_clips[clip_index + 1], stretch,
                                       row, col, width, height)
         IN  show_all_cells(update_clip_data(w, selected_clip, FALSE),
                            available_clips, stretch, number_of_rows, max_clips_on_row,
                            row, col + 1, clip_index + 1)
    ELSE show_all_cells(w, available_clips, stretch, number_of_rows, max_clips_on_row,
                        row, col + 1, clip_index)

show_all_clips(w, clip, stretch) ==
    LET places == nearby(w.clips, clip["position"])
        available_clips == [k \in 1 .. Len(places) |-> w.clips[places[k]]]
        number_of_clips == Len(available_clips)
        number_of_rows == int_sqrt(number_of_clips)
        max_clips_on_row == clips_per_row(number_of_clips, number_of_rows)
    IN  show_all_cells(w, available_clips, stretch, number_of_rows, max_clips_on_row,
                       0, 0, 0)

\* a gravity table with the two bottom corners exchanged
layout_gravity_swapped(action) ==
    IF action = MENU_LAYOUT_TOP_LEFT THEN "GRAVITY_TOP_LEFT"
    ELSE IF action = MENU_LAYOUT_TOP_RIGHT THEN "GRAVITY_TOP_RIGHT"
    ELSE IF action = MENU_LAYOUT_BOTTOM_LEFT THEN "GRAVITY_BOTTOM_RIGHT"
    ELSE IF action = MENU_LAYOUT_BOTTOM_RIGHT THEN "GRAVITY_BOTTOM_LEFT"
    ELSE "GRAVITY_CENTER"

layout_gravity(action) ==
    IF action = MENU_LAYOUT_TOP_LEFT THEN "GRAVITY_TOP_LEFT"
    ELSE IF action = MENU_LAYOUT_TOP_RIGHT THEN "GRAVITY_TOP_RIGHT"
    ELSE IF action = MENU_LAYOUT_BOTTOM_LEFT THEN "GRAVITY_BOTTOM_LEFT"
    ELSE IF action = MENU_LAYOUT_BOTTOM_RIGHT THEN "GRAVITY_BOTTOM_RIGHT"
    ELSE "GRAVITY_CENTER"

\* clip.data as Layout_Triggered changes it before it saves or delegates
layout_data(data, action) ==
    IF action = MENU_LAYOUT_NONE
    THEN Merge(data, [scale |-> "SCALE_FIT", gravity |-> "GRAVITY_CENTER",
                      scale_x |-> OnePoint(float(1), float(1)),
                      scale_y |-> OnePoint(float(1), float(1)),
                      location_x |-> OnePoint(float(1), float(0)),
                      location_y |-> OnePoint(float(1), float(0))])
    ELSE IF action \in {MENU_LAYOUT_CENTER, MENU_LAYOUT_TOP_LEFT, MENU_LAYOUT_TOP_RIGHT,
                        MENU_LAYOUT_BOTTOM_LEFT, MENU_LAYOUT_BOTTOM_RIGHT}
    THEN Merge(data, [scale |-> "SCALE_FIT", gravity |-> layout_gravity(action),
                      scale_x |-> OnePoint(float(1), Rat(1, 2)),
                      scale_y |-> OnePoint(float(1), Rat(1, 2)),
                      location_x |-> OnePoint(float(1), float(0)),
                      location_y |-> OnePoint(float(1), float(0))])
    ELSE data

Layout_Triggered(w, action, clip_id) ==
    LET clip == layout_data(w.clips[get(w.clips, clip_id)], action)
    IN  IF action = MENU_LAYOUT_ALL_WITH_ASPECT THEN show_all_clips(w, clip, FALSE)
        ELSE IF action = MENU_LAYOUT_ALL_WITHOUT_ASPECT THEN show_all_clips(w, clip, TRUE)
        ELSE update_clip_data(w, clip, FALSE)

\* the handler's result becomes the state
Becomes(w) ==
    /\ clips' = w.clips
    /\ transitions' = w.transitions
    /\ generated' = w.generated
    /\ calls' = w.calls
    /\ raised' = w.raised
    /\ sync_calls' = sync_calls \o SelectSeq(w.calls, IsSync)

(***************************************************************************)
(* changed(action): one JavaScript call for the update action.  An action  *)
(* is [type, json], json standing for the text action.json() returns.      *)
(***************************************************************************)
changed_code_dropLoad(action) ==
    IF action.type = "load"
    THEN <<>>
    ELSE <<Js("ApplyJsonDiff", << <<action.json>> >>)>>

changed_code(action) ==
    IF action.type = "load"
    THEN <<Js("LoadJson", <<action.json>>)>>
    ELSE <<Js("ApplyJsonDiff", << <<action.json>> >>)>>

ActionTypes == {"load", "insert", "update", "delete"}
ActionJsons == {"j1", "j2"}
UpdateActions == [type : ActionTypes, json : ActionJsons]

Quiet_project == UNCHANGED <<clips, transitions, fps, generated>>
Quiet_widget == UNCHANGED <<last_position_frames, new_item, item_type, drag, window>>

changed(action) ==
    /\ Len(delivered) < MaxActions
    /\ op' = [name |-> "changed", action |-> action]
    /\ calls' = changed_code(action)
    /\ raised' = FALSE
    /\ sync_calls' = sync_calls \o SelectSeq(calls', IsSync)
    /\ delivered' = Append(delivered, action)
    /\ Quiet_project /\ Quiet_widget /\ UNCHANGED previews

(***************************************************************************)
(* PlayheadMoved / movePlayhead                                            *)
(***************************************************************************)
Frames == 0 .. MaxFrame
Seconds == {0, 1}
TimeCodes == {"00:00:00:01", "00:00:01:01"}

PlayheadMoved_calls_always(last, position_seconds, position_frames, time_code) ==
    <<Call("window.previewFrame", <<position_seconds, position_frames, time_code>>)>>

PlayheadMoved_calls(last, position_seconds, position_frames, time_code) ==
    IF last # position_frames
    THEN <<Call("window.previewFrame", <<position_seconds, position_frames, time_code>>)>>
    ELSE <<>>

PlayheadMoved_last(last, position_frames) ==
    IF last # position_frames THEN position_frames ELSE last

PlayheadMoved(position_seconds, position_frames, time_code) ==
    /\ Len(previews) < MaxPreviews
    /\ op' = [name |-> "PlayheadMoved", position_frames |-> position_frames]
    /\ calls' = PlayheadMoved_calls(last_position_frames, position_seconds,
                                    position_frames, time_code)
    /\ last_position_frames' = PlayheadMoved_last(last_position_frames, position_frames)
    /\ raised' = FALSE
    /\ previews' = previews \o
            [i \in 1 .. Len(CallsNamed(calls', "window.previewFrame")) |->
                CallsNamed(calls', "window.previewFrame")[i].args[2]]
    /\ Quiet_project /\ UNCHANGED <<new_item, item_type, drag, window, sync_calls, delivered>>

movePlayhead(position_frames) ==
    /\ op' = [name |-> "movePlayhead", position_frames |-> position_frames]
    /\ calls' = <<Js("MovePlayheadToFrame", <<position_frames>>)>>
    /\ raised' = FALSE
    /\ sync_calls' = sync_calls \o SelectSeq(calls', IsSync)
    /\ Quiet_project /\ Quiet_widget /\ UNCHANGED <<delivered, previews>>

SetSnappingMode(enable_snapping) ==
    /\ op' = [name |-> "SetSnappingMode", enable_snapping |-> enable_snapping]
    /\ calls' = <<Js("SetSnappingMode", <<IF enable_snapping THEN 1 ELSE 0>>)>>
    /\ raised' = FALSE
    /\ sync_calls' = sync_calls \o SelectSeq(calls', IsSync)
    /\ Quiet_project /\ Quiet_widget /\ UNCHANGED <<delivered, previews>>

(***************************************************************************)
(* The state after __init__, with an empty project.                        *)
(***************************************************************************)
FpsChoices == {[num |-> 24, den |-> 1], [num |-> 30000, den |-> 1001]}

\* the main window the widget is built for: its zoom slider (a QSlider) and
\* its lists of selected items, nothing selected
MainWindow ==
    [sliderZoom |-> [value |-> 2, minimum |-> 0, maximum |-> 4, pageStep |-> 1],
     selected_clips |-> <<>>, selected_transitions |-> <<>>, selected_effects |-> <<>>,
     selected_tracks |-> <<>>, selected_markers |-> <<>>]

\* the widget's own fields after __init__
Init_fields ==
    /\ last_position_frames = NoFrame
    /\ new_item = FALSE
    /\ item_type = None
    /\ op = [name |-> "__init__"]
    /\ calls = <<>>
    /\ raised = FALSE
    /\ sync_calls = <<>>
    /\ delivered = <<>>
    /\ previews = <<>>
    /\ drag = <<>>
    /\ generated = 0

Init_widget ==
    /\ Init_fields
    /\ window = MainWindow

Init_empty ==
    /\ Init_widget
    /\ clips = <<>>
    /\ transitions = <<>>
    /\ fps \in FpsChoices

(***************************************************************************)
(* The update listener, among the other handlers that evaluate JavaScript. *)
(***************************************************************************)
Next_updates ==
    \/ \E action \in UpdateActions : changed(action)
    \/ \E f \in Frames : movePlayhead(f)
    \/ \E b \in BOOLEAN : SetSnappingMode(b)

SpecUpdates == Init_empty /\ [][Next_updates]_vars

(***************************************************************************)
(* The playhead: scrubbed in JavaScript (PlayheadMoved) and moved by the   *)
(* video player (movePlayhead).                                            *)
(***************************************************************************)
Next_playhead ==
    \/ \E s \in Seconds, f \in Frames, t \in TimeCodes : PlayheadMoved(s, f, t)
    \/ \E f \in Frames : movePlayhead(f)

SpecPlayhead == Init_empty /\ [][Next_playhead]_vars

\* C1: every update action delivered to changed() produced exactly one
\* JavaScript call, in the order the actions arrived and none dropped:
\* LoadJson(json) for a "load" action, ApplyJsonDiff([json]) for any other.
C1_OneCallPerAction ==
    /\ Len(sync_calls) = Len(delivered)
    /\ \A i \in 1 .. Len(delivered) :
          IF delivered[i].type = "load"
          THEN /\ sync_calls[i].call = "eval_js.LoadJson"
               /\ sync_calls[i].args = <<delivered[i].json>>
          ELSE /\ sync_calls[i].call = "eval_js.ApplyJsonDiff"
               /\ sync_calls[i].args = << <<delivered[i].json>> >>
    /\ (op.name = "changed" => Len(calls) = 1)

C1_Witness ==
    /\ Len(delivered) = 3
    /\ delivered[1].type = "update"
    /\ delivered[2].type = "load"
    /\ delivered[3].type = "insert"
    /\ delivered[1].json # delivered[3].json
    /\ op.name = "changed"

\* C3: previewFrame is invoked by a PlayheadMoved call exactly when its frame
\* differs from the frame of the most recent call that invoked previewFrame
\* (always for the first call, the stored frame starting as None); so no two
\* consecutive previewFrame notifications carry the same frame; and
\* movePlayhead leaves the stored last frame alone.
C3_PreviewIffNewFrame ==
    [][ /\ (op'.name = "PlayheadMoved" =>
              LET lastPreviewed == IF previews = <<>> THEN NoFrame
                                   ELSE previews[Len(previews)]
                  n == Len(CallsNamed(calls', "window.previewFrame"))
              IN  /\ n = (IF op'.position_frames # lastPreviewed THEN 1 ELSE 0)
                  /\ previews = <<>> => n = 1
                  /\ Len(previews') = Len(previews) + n
                  /\ n = 1 => previews'[Len(previews')] = op'.position_frames)
        /\ \A i \in 1 .. Len(previews') - 1 : previews'[i] # previews'[i + 1]
        /\ (op'.name = "movePlayhead" =>
              /\ last_position_frames' = last_position_frames
              /\ previews' = previews)
      ]_vars

\* the stored frame is that of the latest previewFrame notification
StoredFrameIsLastPreview ==
    last_position_frames = (IF previews = <<>> THEN NoFrame ELSE previews[Len(previews)])

C3_Witness ==
    /\ op.name = "PlayheadMoved"
    /\ calls = <<>>
    /\ Len(previews) = 2
    /\ op.position_frames = previews[2]

(***************************************************************************)
(* update_clip_data as JavaScript calls it (a JSON text, only_basic_props  *)
(* left at its default) and as the widget's own methods call it (a         *)
(* dictionary, only_basic_props False).                                    *)
(***************************************************************************)
MaxProjectClips == 2

ClipIds == {"C1", "C2", "C9"}

ClipDicts ==
    LET basic == [id : ClipIds, layer : {1}, position : {float(0), Rat(1, 2)},
                  start : {float(0)}, end : {float(2), float(3)}]
    IN  basic \cup {With(b, "rotation", OnePoint(float(1), float(90))) : b \in basic}

ClipJsons == ClipDicts \cup {JsonText(d) : d \in ClipDicts}

update_clip_data_called(clip_json, only_basic_props) ==
    LET w == update_clip_data(World, clip_json, only_basic_props)
    IN  /\ Len(w.clips) <= MaxProjectClips
        /\ op' = [name |-> "update_clip_data", clip_json |-> clip_json,
                  only_basic_props |-> only_basic_props]
        /\ Becomes(w)
        /\ UNCHANGED <<fps, delivered, previews>> /\ Quiet_widget

Init_clipdata ==
    /\ Init_widget
    /\ transitions = <<>>
    /\ fps \in FpsChoices
    /\ clips \in {<<>>,
                  <<ProjectClip("C1", 1, float(0), float(0), float(2))>>,
                  <<ProjectClip("C1", 1, float(0), float(0), float(2)),
                    ProjectClip("C2", 1, float(2), float(0), float(3))>>}

Next_clipdata ==
    \E clip_json \in ClipJsons, only_basic_props \in BOOLEAN :
        update_clip_data_called(clip_json, only_basic_props)

SpecClipData == Init_clipdata /\ [][Next_clipdata]_vars

\* the dictionary a call of update_clip_data was given
GivenDict(clip_json) == IF isinstance_dict(clip_json) THEN clip_json ELSE json_loads(clip_json)

\* C2: update_clip_data with only_basic_props true saves a record whose keys
\* are exactly id, layer, position, start and end, each with the value of the
\* input JSON; with only_basic_props false it saves the whole input record.
C2_SavedRecord ==
    op.name = "update_clip_data" =>
        LET saves == CallsNamed(calls, "Clip.save")
            given == GivenDict(op.clip_json)
        IN  /\ Len(saves) = 1
            /\ IF op.only_basic_props
               THEN /\ DOMAIN saves[1].args[1] = {"id", "layer", "position", "start", "end"}
                    /\ \A k \in {"id", "layer", "position", "start", "end"} :
                          saves[1].args[1][k] = given[k]
               ELSE saves[1].args[1] = given

C2_Witness ==
    /\ op.name = "update_clip_data"
    /\ op.only_basic_props
    /\ ~isinstance_dict(op.clip_json)
    /\ "rotation" \in DOMAIN json_loads(op.clip_json)
    /\ Len(CallsNamed(calls, "Clip.save")) = 1
    /\ "rotation" \notin DOMAIN CallsNamed(calls, "Clip.save")[1].args[1]

(***************************************************************************)
(* Drags over the timeline: of a file, a transition or an effect from the  *)
(* editor's own lists (plain text: a JSON list, the kind as html), or of   *)
(* files from outside (URLs).                                              *)
(***************************************************************************)
MaxDragItems == 2

Tracks == {0, 1}
JsPositions == {float(0), float(5)}
DragPlaces == {[x |-> 100, y |-> 40]}

ListDrag(type, list, pos) ==
    [hasUrls |-> FALSE, hasText |-> TRUE, html |-> type, text |-> JsonText(list), pos |-> pos]

ClipDrags == {ListDrag("clip", <<f>>, pos) : f \in {"F2", "F3"}, pos \in DragPlaces}
TransitionDrags ==
    {ListDrag("transition", <<"transitions/common/wipe.svg">>, pos) : pos \in DragPlaces}
EffectDrags == {ListDrag("effect", <<n>>, pos) : n \in {"blur", "wave"}, pos \in DragPlaces}
UrlDrags ==
    {[hasUrls |-> TRUE, hasText |-> TRUE, html |-> "",
      text |-> [raw |-> "file:///media/a.mp4"], pos |-> pos] : pos \in DragPlaces}
DragEvents == ClipDrags \cup TransitionDrags \cup EffectDrags \cup UrlDrags

RECURSIVE effects_in(_, _)
effects_in(items, i) ==
    IF i > Len(items) THEN 0
    ELSE (IF "effects" \in DOMAIN items[i] THEN Len(items[i]["effects"]) ELSE 0)
         + effects_in(items, i + 1)

\* the clips, transitions and effects that drags have added
dragged_items(w) == Len(w.clips) + Len(w.transitions) + effects_in(w.clips, 1)

WithinDragBounds(w) == dragged_items(w) <= MaxDragItems

\* a drag enters the widget: a new one, or the one that had left it
dragEnterEvent(event, js_track, js_position) ==
    LET w == dragEnterEvent_world(World, new_item, event, js_track, js_position)
    IN  /\ WithinDragBounds(w)
        /\ op' = [name |-> "dragEnterEvent", item_type |-> item_type]
        /\ new_item' = (new_item \/ starts_item(new_item, event))
        /\ item_type' = IF starts_item(new_item, event) THEN event.html ELSE item_type
        /\ drag' = <<event>>
        /\ Becomes(w)
        /\ UNCHANGED <<fps, last_position_frames, window, delivered, previews>>

\* the drag over the widget moves
dragMoveEvent ==
    /\ drag # <<>>
    /\ LET w == dragMoveEvent_world(World, item_type, drag[1])
       IN  /\ op' = [name |-> "dragMoveEvent", item_type |-> item_type]
           /\ Becomes(w)
           /\ UNCHANGED <<fps, delivered, previews>> /\ Quiet_widget

\* the drag over the widget is dropped on it
dropEvent(js_track, js_position) ==
    /\ drag # <<>>
    /\ LET w == dropEvent_world(World, item_type, drag[1], js_track, js_position)
       IN  /\ WithinDragBounds(w)
           /\ op' = [name |-> "dropEvent", item_type |-> item_type]
           /\ new_item' = IF w.raised THEN new_item ELSE FALSE
           /\ item_type' = IF w.raised THEN item_type ELSE None
           /\ drag' = <<>>
           /\ Becomes(w)
           /\ UNCHANGED <<fps, last_position_frames, window, delivered, previews>>

Next_drag ==
    \/ \E event \in DragEvents, js_track \in Tracks, js_position \in JsPositions :
          dragEnterEvent(event, js_track, js_position)
    \/ dragMoveEvent
    \/ \E js_track \in Tracks, js_position \in JsPositions :
          dropEvent(js_track, js_position)

Init_drag == Init_empty /\ fps = [num |-> 24, den |-> 1]

SpecDrag == Init_drag /\ [][Next_drag]_vars

\* C4 (first part): once a dragEnterEvent has set new_item, a further
\* dragEnterEvent before the next dropEvent creates no clip or transition and
\* leaves item_type alone.
OneItemPerDrag ==
    [][(op'.name = "dragEnterEvent" /\ new_item) =>
          /\ clips' = clips
          /\ transitions' = transitions
          /\ item_type' = item_type
          /\ new_item']_vars

\* C4 (second part): every dragEnterEvent is accepted
EveryDragEnterAccepted ==
    op.name = "dragEnterEvent" => Len(CallsNamed(calls, "event.accept")) = 1

\* C4: a drag creates at most one timeline item (a dragEnterEvent that finds
\* new_item set creates nothing and keeps item_type), every dragEnterEvent is
\* accepted, and dropEvent always leaves new_item False and item_type None.
C4_OneItemPerDragAndDropClears ==
    [][ /\ ((op'.name = "dragEnterEvent" /\ new_item) =>
              /\ clips' = clips
              /\ transitions' = transitions
              /\ item_type' = item_type)
        /\ (op'.name = "dragEnterEvent" =>
              Len(CallsNamed(calls', "event.accept")) = 1)
        /\ (op'.name = "dropEvent" => (new_item' = FALSE /\ item_type' = None))
      ]_vars

\* the calls of a handler other than event.accept()
OtherCalls(cs) == SelectSeq(cs, LAMBDA c : c.call # "event.accept")

\* the drag over the widget is of this type, and the widget took it as such
DragOfType(type) == drag # <<>> /\ drag[1].html = type /\ item_type = type

MaxTransitions == 2

TransitionDicts ==
    [id : {"G1", "G2", "T9"}, layer : {1}, position : {float(0)},
     start : {float(0), float(1)}, end : {float(3)}]

MissingTransitions ==
    [layer : {1}, position : {float(0)}, start : {float(0), float(1)}, end : {float(3)}]

update_transition_data_called(transition_json) ==
    LET w == update_transition_data(World, transition_json, TRUE)
    IN  /\ Len(w.transitions) <= MaxTransitions
        /\ op' = [name |-> "update_transition_data", transition_json |-> transition_json]
        /\ Becomes(w)
        /\ UNCHANGED <<fps, delivered, previews>> /\ Quiet_widget

add_missing_transition_called(transition_json) ==
    LET w == add_missing_transition(World, transition_json)
    IN  /\ Len(w.transitions) <= MaxTransitions
        /\ op' = [name |-> "add_missing_transition", transition_json |-> transition_json]
        /\ Becomes(w)
        /\ UNCHANGED <<fps, delivered, previews>> /\ Quiet_widget

\* "Reverse Transition" of the context menu ShowTransitionMenu(tran_id) opened
Reverse_Transition_Triggered_called(tran_id) ==
    /\ get(transitions, tran_id) # 0
    /\ LET w == Reverse_Transition_Triggered(World, tran_id)
       IN  /\ op' = [name |-> "Reverse_Transition_Triggered", tran_id |-> tran_id]
           /\ Becomes(w)
           /\ UNCHANGED <<fps, delivered, previews>> /\ Quiet_widget

Next_transitions ==
    \/ \E d \in TransitionDicts : update_transition_data_called(JsonText(d))
    \/ \E d \in MissingTransitions : add_missing_transition_called(JsonText(d))
    \/ \E tran_id \in {"G1", "G2"} : Reverse_Transition_Triggered_called(tran_id)
    \/ \E event \in TransitionDrags, js_track \in Tracks, js_position \in JsPositions :
          dragEnterEvent(event, js_track, js_position)
    \/ \E js_track \in Tracks, js_position \in JsPositions :
          dropEvent(js_track, js_position)

SpecTransitions == Init_empty /\ [][Next_transitions]_vars

\* the records the last handler passed to Transition.save()
SavedTransitions == CallsNamed(calls, "Transition.save")

\* the keyframe has a point of this value at this frame
HasPoint(keyframe, frame, value) ==
    \E i \in 1 .. Len(keyframe.Points) :
        /\ keyframe.Points[i].co.X = frame
        /\ keyframe.Points[i].co.Y = value

\* the brightness goes from 1.0 at frame 1 to -1.0 at the last frame of the duration
MatchesDuration(t) ==
    /\ HasPoint(t["brightness"], float(1), float(1))
    /\ HasPoint(t["brightness"], RMul(RSub(t["end"], t["start"]), Rat(fps.num, fps.den)),
                float(-1))

MaxLayoutClips == 5

\* where a clip may lie, and how long it may be
LayoutSpans ==
    {[position |-> float(0), end |-> Rat(1, 4)],
     [position |-> Rat(1, 2), end |-> float(2)],
     [position |-> Rat(3, 2), end |-> float(2)]}

\* the positions of the clips after the first do not decrease along the list
SortedAfterFirst(spans) ==
    \A i \in 2 .. Len(spans) - 1 : RLe(spans[i].position, spans[i + 1].position)

LayoutProjects ==
    UNION {{[i \in 1 .. n |->
                ProjectClip("C" \o ToString(i), i, spans[i].position, float(0), spans[i].end)] :
              spans \in {sp \in [1 .. n -> LayoutSpans] : SortedAfterFirst(sp)}} :
           n \in 1 .. MaxLayoutClips}

\* an entry of the clip's Layout menu (ShowClipMenu(clip_id)) is chosen
Layout_Triggered_called(action, clip_id) ==
    /\ get(clips, clip_id) # 0
    /\ LET w == Layout_Triggered(World, action, clip_id)
       IN  /\ op' = [name |-> "Layout_Triggered", action |-> action, clip_id |-> clip_id]
           /\ Becomes(w)
           /\ UNCHANGED <<fps, delivered, previews>> /\ Quiet_widget

Init_layout ==
    /\ Init_widget
    /\ transitions = <<>>
    /\ fps = [num |-> 24, den |-> 1]
    /\ clips \in LayoutProjects

Next_layout ==
    \E action \in {MENU_LAYOUT_ALL_WITH_ASPECT, MENU_LAYOUT_ALL_WITHOUT_ASPECT},
       i \in 1 .. MaxLayoutClips :
        Layout_Triggered_called(action, "C" \o ToString(i))

SpecLayout == Init_layout /\ [][Next_layout]_vars

\* "Show All" was the last handler
ShowedAll ==
    /\ op.name = "Layout_Triggered"
    /\ op.action \in {MENU_LAYOUT_ALL_WITH_ASPECT, MENU_LAYOUT_ALL_WITHOUT_ASPECT}

\* the value of a keyframe of one point
Value(keyframe) == keyframe.Points[1].co.Y

\* |a - b|
Distance(a, b) == IF RLe(a, b) THEN RSub(b, a) ELSE RSub(a, b)

\* the places of the clips show_all_clips selects for the clip at place c:
\* those whose position is within 0.5 seconds of its position
SelectedWith(items, c) ==
    {i \in 1 .. Len(items) :
        RLe(Distance(items[i]["position"], items[c]["position"]), Rat(1, 2))}

\* C7: show_all_clips arranges the n selected clips (those whose position is
\* within 0.5 seconds of the chosen clip's) in a grid of
\* rows = floor(sqrt(n)) rows and cols = ceil(n / rows) columns, row by row:
\* every selected clip is saved exactly once, no two get the same cell, each
\* gets scale_x = 1/cols and scale_y = 1/rows, and every cell lies inside the
\* unit frame.
C7_GridLayout ==
    [][ShowedAll' =>
          LET selected == SelectedWith(clips, get(clips, op'.clip_id))
              saves == CallsNamed(calls', "Clip.save")
              n == Cardinality(selected)
              rows == CHOOSE r \in 1 .. n : r * r <= n /\ (r + 1) * (r + 1) > n
              cols == CHOOSE c \in 1 .. n : (c - 1) * rows < n /\ n <= c * rows
              X(k) == Value(saves[k].args[1]["location_x"])
              Y(k) == Value(saves[k].args[1]["location_y"])
          IN  /\ n >= 1
              /\ Len(saves) = n
              /\ \A i \in selected :
                    Cardinality({k \in 1 .. n : saves[k].args[1]["id"] = clips[i]["id"]}) = 1
              /\ \A j, k \in 1 .. n : j # k => <<X(j), Y(j)>> # <<X(k), Y(k)>>
              /\ \A k \in 1 .. n :
                    /\ Value(saves[k].args[1]["scale_x"]) = Rat(1, cols)
                    /\ Value(saves[k].args[1]["scale_y"]) = Rat(1, rows)
                    /\ X(k) = Rat((k - 1) % cols, cols)
                    /\ Y(k) = Rat((k - 1) \div cols, rows)
                    /\ RLe(float(0), X(k)) /\ RLe(RAdd(X(k), Rat(1, cols)), float(1))
                    /\ RLe(float(0), Y(k)) /\ RLe(RAdd(Y(k), Rat(1, rows)), float(1))
      ]_vars

\* five clips were arranged in two rows of three columns
C7_Witness ==
    /\ ShowedAll
    /\ Len(CallsNamed(calls, "Clip.save")) = 5
    /\ \E k \in 1 .. 5 :
          LET saved == CallsNamed(calls, "Clip.save")[k].args[1]
          IN  /\ Value(saved["location_x"]) = Rat(1, 3)
              /\ Value(saved["location_y"]) = Rat(1, 2)

\* the time spans of two clips overlap
Overlap(a, b) ==
    /\ RLt(a["position"], RAdd(b["position"], RSub(b["end"], b["start"])))
    /\ RLt(b["position"], RAdd(a["position"], RSub(a["end"], a["start"])))

\* C8: show_all_clips re-lays-out (saves with a new layout) every clip whose
\* time span overlaps the chosen clip's, the chosen clip included, and no
\* other clip.
C8_ArrangesOverlappingClips ==
    [][ShowedAll' =>
          LET c == get(clips, op'.clip_id)
              saves == CallsNamed(calls', "Clip.save")
          IN  \A i \in 1 .. Len(clips) :
                 IF i = c \/ Overlap(clips[i], clips[c])
                 THEN \E k \in 1 .. Len(saves) : saves[k].args[1]["id"] = clips[i]["id"]
                 ELSE \A k \in 1 .. Len(saves) : saves[k].args[1]["id"] # clips[i]["id"]
      ]_vars

(***************************************************************************)
(* Fade_Triggered and Rotate_Triggered: the clip menu's keyframe presets.  *)
(***************************************************************************)
\* the alpha points of all clips together stay within this many
MaxAlphaPoints == 6

\* a fade-in that is not clamped to the clip
fade_in_unclamped(points, seconds, end_of_clip) ==
    points \o <<Point(float(1), float(1)),
                Point(RMul(seconds, fps_float), float(0))>>

\* start = Point(1, 1.0); end = Point(min(seconds * fps_float, end_of_clip), 0.0);
\* both appended to clip.data["alpha"]["Points"]
fade_in(points, seconds, end_of_clip) ==
    points \o <<Point(float(1), float(1)),
                Point(RMin(RMul(seconds, fps_float), end_of_clip), float(0))>>

\* start = Point(max(0.0, end_of_clip - seconds * fps_float), 0.0);
\* end = Point(end_of_clip, 1.0); both appended
fade_out(points, seconds, end_of_clip) ==
    points \o <<Point(RMax(float(0), RSub(end_of_clip, RMul(seconds, fps_float))), float(0)),
                Point(end_of_clip, float(1))>>

\* the alpha points after the five ifs of Fade_Triggered, taken in order
fade_points(points, action, end_of_clip) ==
    LET p1 == IF action = MENU_FADE_NONE THEN <<Point(float(1), float(0))>> ELSE points
        p2 == IF action = MENU_FADE_IN_FAST \/ action = MENU_FADE_IN_OUT_FAST
              THEN fade_in(p1, float(1), end_of_clip) ELSE p1
        p3 == IF action = MENU_FADE_IN_SLOW \/ action = MENU_FADE_IN_OUT_SLOW
              THEN fade_in(p2, float(3), end_of_clip) ELSE p2
        p4 == IF action = MENU_FADE_OUT_FAST \/ action = MENU_FADE_IN_OUT_FAST
              THEN fade_out(p3, float(1), end_of_clip) ELSE p3
        p5 == IF action = MENU_FADE_OUT_SLOW \/ action = MENU_FADE_IN_OUT_SLOW
              THEN fade_out(p4, float(3), end_of_clip) ELSE p4
    IN  p5

Fade_Triggered(w, action, clip_id) ==
    LET data == w.clips[get(w.clips, clip_id)]
        end_of_clip == RMul(data["end"], fps_float)
        faded == With(data, "alpha",
                      [Points |-> fade_points(data["alpha"].Points, action, end_of_clip)])
    IN  update_clip_data(w, faded, FALSE)

\* a rotation preset that adds its point to the ones the clip has
rotate_points_appended(points, action) ==
    points \o <<Point(float(1),
                      IF action = MENU_ROTATE_90_RIGHT THEN float(90)
                      ELSE IF action = MENU_ROTATE_90_LEFT THEN float(-90)
                      ELSE IF action = MENU_ROTATE_180_FLIP THEN float(180)
                      ELSE float(0))>>

\* the rotation points after the four ifs of Rotate_Triggered
rotate_points(points, action) ==
    LET p1 == IF action = MENU_ROTATE_NONE THEN <<Point(float(1), float(0))>> ELSE points
        p2 == IF action = MENU_ROTATE_90_RIGHT THEN <<Point(float(1), float(90))>> ELSE p1
        p3 == IF action = MENU_ROTATE_90_LEFT THEN <<Point(float(1), float(-90))>> ELSE p2
        p4 == IF action = MENU_ROTATE_180_FLIP THEN <<Point(float(1), float(180))>> ELSE p3
    IN  p4

Rotate_Triggered(w, action, clip_id) ==
    LET data == w.clips[get(w.clips, clip_id)]
        rotated == With(data, "rotation",
                        [Points |-> rotate_points(data["rotation"].Points, action)])
    IN  update_clip_data(w, rotated, FALSE)

RECURSIVE alpha_points(_)
alpha_points(items) ==
    IF items = <<>> THEN 0
    ELSE Len(Head(items)["alpha"].Points) + alpha_points(Tail(items))

FadeActions == {MENU_FADE_NONE, MENU_FADE_IN_FAST, MENU_FADE_IN_SLOW, MENU_FADE_OUT_FAST,
                MENU_FADE_OUT_SLOW, MENU_FADE_IN_OUT_FAST, MENU_FADE_IN_OUT_SLOW}

RotateActions == {MENU_ROTATE_NONE, MENU_ROTATE_90_RIGHT, MENU_ROTATE_90_LEFT,
                  MENU_ROTATE_180_FLIP}

\* an entry of the clip's Fade menu (ShowClipMenu(clip_id)) is chosen
Fade_Triggered_called(action, clip_id) ==
    /\ get(clips, clip_id) # 0
    /\ LET w == Fade_Triggered(World, action, clip_id)
       IN  /\ alpha_points(w.clips) <= MaxAlphaPoints
           /\ op' = [name |-> "Fade_Triggered", action |-> action, clip_id |-> clip_id]
           /\ Becomes(w)
           /\ UNCHANGED <<fps, delivered, previews>> /\ Quiet_widget

\* an entry of the clip's Rotate menu is chosen
Rotate_Triggered_called(action, clip_id) ==
    /\ get(clips, clip_id) # 0
    /\ LET w == Rotate_Triggered(World, action, clip_id)
       IN  /\ op' = [name |-> "Rotate_Triggered", action |-> action, clip_id |-> clip_id]
           /\ Becomes(w)
           /\ UNCHANGED <<fps, delivered, previews>> /\ Quiet_widget

\* clips shorter than a fast fade, between a fast and a slow one, and longer
MenuEnds == {Rat(1, 2), float(2), float(5)}

\* rotation keyframes a clip can carry when the menu opens
MenuRotations ==
    {OnePoint(float(1), float(0)),
     [Points |-> <<Point(float(1), float(0)), Point(float(48), float(360))>>]}

MenuProjects ==
    UNION {{[i \in 1 .. n |->
                With(ProjectClip("C" \o ToString(i), i, float(0), float(0), ends[i]),
                     "rotation", rotation)] :
              ends \in [1 .. n -> MenuEnds], rotation \in MenuRotations} :
           n \in 1 .. MaxProjectClips}

Init_menu ==
    /\ Init_widget
    /\ transitions = <<>>
    /\ fps \in FpsChoices
    /\ clips \in MenuProjects

Next_fade ==
    \E action \in FadeActions, i \in 1 .. MaxProjectClips :
        Fade_Triggered_called(action, "C" \o ToString(i))

SpecFade == Init_menu /\ [][Next_fade]_vars

Next_rotate ==
    \E action \in RotateActions, i \in 1 .. MaxProjectClips :
        Rotate_Triggered_called(action, "C" \o ToString(i))

SpecRotate == Init_menu /\ [][Next_rotate]_vars

\* the handler that ran last, and the place of the clip it was called on
Faded == op.name = "Fade_Triggered"
Rotated == op.name = "Rotate_Triggered"

\* the one record saved by the step, and that nothing else was saved
SavedOnce(record) ==
    LET saves == CallsNamed(calls', "Clip.save")
    IN  Len(saves) = 1 /\ saves[1].args = <<record>>

\* C9: Fade_Triggered appends to the clip's alpha points, with
\* end_of_clip = end * fps and k = 1 second (fast) or 3 seconds (slow): for a
\* fade-in (1, 1.0) then (min(k*fps, end_of_clip), 0.0); for a fade-out
\* (max(0, end_of_clip - k*fps), 0.0) then (end_of_clip, 1.0); for a fade
\* in-and-out the fade-in pair then the fade-out pair; MENU_FADE_NONE replaces
\* all alpha points by the single point (1, 0.0).  The clip is then saved
\* exactly once, with all its properties.
C9_FadeKeyframes ==
    [][Faded' =>
          LET c == get(clips, op'.clip_id)
              a == op'.action
              old == clips[c]["alpha"].Points
              eoc == RMul(clips[c]["end"], RDiv(float(fps.num), float(fps.den)))
              k == IF a \in {MENU_FADE_IN_FAST, MENU_FADE_OUT_FAST, MENU_FADE_IN_OUT_FAST}
                   THEN RDiv(float(fps.num), float(fps.den))
                   ELSE RMul(float(3), RDiv(float(fps.num), float(fps.den)))
              in == <<Point(float(1), float(1)),
                      Point(IF RLt(k, eoc) THEN k ELSE eoc, float(0))>>
              out == <<Point(IF RLt(k, eoc) THEN RSub(eoc, k) ELSE float(0), float(0)),
                       Point(eoc, float(1))>>
              new == IF a = MENU_FADE_NONE THEN <<Point(float(1), float(0))>>
                     ELSE IF a \in {MENU_FADE_IN_FAST, MENU_FADE_IN_SLOW} THEN old \o in
                     ELSE IF a \in {MENU_FADE_OUT_FAST, MENU_FADE_OUT_SLOW} THEN old \o out
                     ELSE old \o in \o out
              record == [clips[c] EXCEPT !["alpha"] = [Points |-> new]]
          IN  SavedOnce(record)
      ]_vars

\* a fast fade-in was clamped to a clip shorter than a second, and a slow fade
\* in-and-out to a clip shorter than three seconds
C9_Witness ==
    /\ Faded
    /\ \E i \in 1 .. Len(clips) :
          LET points == clips[i]["alpha"].Points
              eoc == RMul(clips[i]["end"], fps_float)
          IN  /\ Len(points) = 5
              /\ RLt(eoc, RMul(float(3), fps_float))
              /\ points[3].co.X = eoc
              /\ points[4].co.X = float(0)
              /\ points[5].co = [X |-> eoc, Y |-> float(1)]

\* C10: Rotate_Triggered replaces the clip's rotation keyframes by exactly one
\* point at frame 1 whose value is 0.0 for MENU_ROTATE_NONE, 90.0 for
\* MENU_ROTATE_90_RIGHT, -90.0 for MENU_ROTATE_90_LEFT and 180.0 for
\* MENU_ROTATE_180_FLIP: the rotation saved depends only on the action, not
\* on the rotation the clip had; repeating an action on a clip saves the clip
\* as it is; and every other property is saved as the clip had it.
C10_RotationIsLastAction ==
    [][Rotated' =>
          LET c == get(clips, op'.clip_id)
              a == op'.action
              angle == IF a = MENU_ROTATE_NONE THEN 0
                       ELSE IF a = MENU_ROTATE_90_RIGHT THEN 90
                       ELSE IF a = MENU_ROTATE_90_LEFT THEN -90
                       ELSE 180
              rotation == [Points |-> <<[co |-> [X |-> float(1), Y |-> float(angle)],
                                         interpolation |-> "BEZIER"]>>]
              record == [clips[c] EXCEPT !["rotation"] = rotation]
          IN  /\ a \in RotateActions
              /\ SavedOnce(record)
              /\ (Rotated /\ op = op') => record = clips[c]
      ]_vars

\* a clip was rotated left, after another clip was rotated right
C10_Witness ==
    /\ Rotated
    /\ op.action = MENU_ROTATE_90_LEFT
    /\ \E i \in 1 .. Len(clips) :
          /\ clips[i]["id"] = op.clip_id
          /\ clips[i]["rotation"] = OnePoint(float(1), float(-90))
          /\ \E j \in 1 .. Len(clips) :
                j # i /\ clips[j]["rotation"] = OnePoint(float(1), float(90))

(***************************************************************************)
(* The whole Layout menu of a clip, on a project of one or two clips.      *)
(***************************************************************************)
LayoutActions ==
    {MENU_LAYOUT_NONE, MENU_LAYOUT_CENTER, MENU_LAYOUT_TOP_LEFT, MENU_LAYOUT_TOP_RIGHT,
     MENU_LAYOUT_BOTTOM_LEFT, MENU_LAYOUT_BOTTOM_RIGHT, MENU_LAYOUT_ALL_WITH_ASPECT,
     MENU_LAYOUT_ALL_WITHOUT_ASPECT}

Init_layoutmenu ==
    /\ Init_widget
    /\ transitions = <<>>
    /\ fps = [num |-> 24, den |-> 1]
    /\ clips \in {p \in LayoutProjects : Len(p) <= 2}

Next_layoutmenu ==
    \E action \in LayoutActions, i \in 1 .. 2 :
        Layout_Triggered_called(action, "C" \o ToString(i))

SpecLayoutMenu == Init_layoutmenu /\ [][Next_layoutmenu]_vars

\* C11: Layout_Triggered maps each menu action to a layout.  MENU_LAYOUT_NONE
\* saves the clip once with scale SCALE_FIT, gravity CENTER, scale_x and
\* scale_y a single point of value 1.0 and location_x and location_y a single
\* point of value 0.0; each of the five quarter-size actions saves it once
\* with scale SCALE_FIT, scale_x and scale_y 0.5, locations 0.0 and the
\* matching gravity; the two "show all" actions delegate to show_all_clips,
\* where every arranged clip gets gravity TOP_LEFT and scale SCALE_FIT (with
\* aspect) or SCALE_STRETCH (without aspect).
C11_LayoutByAction ==
    [][op'.name = "Layout_Triggered" =>
          LET c == get(clips, op'.clip_id)
              a == op'.action
              saves == CallsNamed(calls', "Clip.save")
              one(v) == [Points |-> <<[co |-> [X |-> float(1), Y |-> v],
                                       interpolation |-> "BEZIER"]>>]
              gravity == CASE a = MENU_LAYOUT_NONE -> "GRAVITY_CENTER"
                           [] a = MENU_LAYOUT_CENTER -> "GRAVITY_CENTER"
                           [] a = MENU_LAYOUT_TOP_LEFT -> "GRAVITY_TOP_LEFT"
                           [] a = MENU_LAYOUT_TOP_RIGHT -> "GRAVITY_TOP_RIGHT"
                           [] a = MENU_LAYOUT_BOTTOM_LEFT -> "GRAVITY_BOTTOM_LEFT"
                           [] a = MENU_LAYOUT_BOTTOM_RIGHT -> "GRAVITY_BOTTOM_RIGHT"
                           [] OTHER -> "GRAVITY_TOP_LEFT"
              size == IF a = MENU_LAYOUT_NONE THEN float(1) ELSE Rat(1, 2)
              record == [clips[c] EXCEPT !["scale"] = "SCALE_FIT",
                                         !["gravity"] = gravity,
                                         !["scale_x"] = one(size),
                                         !["scale_y"] = one(size),
                                         !["location_x"] = one(float(0)),
                                         !["location_y"] = one(float(0))]
          IN  IF a \in {MENU_LAYOUT_ALL_WITH_ASPECT, MENU_LAYOUT_ALL_WITHOUT_ASPECT}
              THEN /\ Len(saves) >= 1
                   /\ \A k \in 1 .. Len(saves) :
                         /\ saves[k].args[1]["gravity"] = "GRAVITY_TOP_LEFT"
                         /\ saves[k].args[1]["scale"] =
                               IF a = MENU_LAYOUT_ALL_WITH_ASPECT THEN "SCALE_FIT"
                               ELSE "SCALE_STRETCH"
              ELSE SavedOnce(record)
      ]_vars

\* a clip was laid out bottom right while another clip of the project was
\* stretched by "Show All (Distort)"
C11_Witness ==
    /\ op.name = "Layout_Triggered"
    /\ op.action = MENU_LAYOUT_BOTTOM_RIGHT
    /\ Len(CallsNamed(calls, "Clip.save")) = 1
    /\ CallsNamed(calls, "Clip.save")[1].args[1]["gravity"] = "GRAVITY_BOTTOM_RIGHT"
    /\ \E i \in 1 .. Len(clips) : clips[i]["scale"] = "SCALE_STRETCH"

(***************************************************************************)
(* "Reverse Transition" on transitions whose brightness has two or three   *)
(* points, with the handles libopenshot writes or without them.            *)
(***************************************************************************)
\* a point as Point.Json() writes it when it carries its handles
HandlePoint(x, y, left, right) ==
    [co |-> [X |-> x, Y |-> y],
     handle_left |-> [X |-> Rat(1, 2), Y |-> left],
     handle_right |-> [X |-> Rat(1, 2), Y |-> right],
     interpolation |-> "BEZIER"]

ReverseBrightness ==
    {[Points |-> <<Point(float(1), float(1)), Point(float(72), float(-1))>>],
     [Points |-> <<Point(float(1), float(1)), Point(float(24), float(0)),
                   Point(float(72), float(-1))>>],
     [Points |-> <<HandlePoint(float(1), float(1), float(1), float(0)),
                   HandlePoint(float(72), float(-1), Rat(1, 4), Rat(3, 4))>>],
     [Points |-> <<HandlePoint(float(1), float(1), float(1), float(0)),
                   HandlePoint(float(24), float(0), Rat(1, 2), Rat(1, 3)),
                   HandlePoint(float(72), float(-1), Rat(1, 4), Rat(3, 4))>>]}

ReverseProjects ==
    UNION {{[i \in 1 .. n |->
                [id |-> "T" \o ToString(i), layer |-> i, title |-> "Transition",
                 type |-> "Mask", position |-> float(0), start |-> starts[i],
                 end |-> float(3), brightness |-> brightness[i],
                 contrast |-> contrast_Json, replace_image |-> FALSE]] :
              starts \in [1 .. n -> {float(0), float(1)}],
              brightness \in [1 .. n -> ReverseBrightness]} :
           n \in 1 .. MaxTransitions}

Init_reverse ==
    /\ Init_widget
    /\ clips = <<>>
    /\ fps = [num |-> 24, den |-> 1]
    /\ transitions \in ReverseProjects

Next_reverse ==
    \E i \in 1 .. MaxTransitions : Reverse_Transition_Triggered_called("T" \o ToString(i))

SpecReverse == Init_reverse /\ [][Next_reverse]_vars

\* C12: Reverse_Transition_Triggered saves the transition with the brightness
\* point at each index carrying the Y value (and, where the points carry
\* handles, the handle_left and handle_right Y values) that the point at the
\* mirrored index had before; the number of points, every point's X
\* coordinate and every other property of the transition are unchanged.  The
\* values are those of the original data, none is read after being
\* overwritten.
C12_ReversedBrightness ==
    [][op'.name = "Reverse_Transition_Triggered" =>
          LET before == transitions[get(transitions, op'.tran_id)]
              saves == CallsNamed(calls', "Transition.save")
              old == before["brightness"].Points
              n == Len(old)
          IN  /\ Len(saves) = 1
              /\ LET after == saves[1].args[1]
                     new == after["brightness"].Points
                 IN  /\ DOMAIN after = DOMAIN before
                     /\ \A k \in DOMAIN before \ {"brightness"} : after[k] = before[k]
                     /\ DOMAIN after["brightness"] = {"Points"}
                     /\ Len(new) = n
                     /\ \A j \in 1 .. n :
                           /\ DOMAIN new[j] = DOMAIN old[j]
                           /\ new[j].co.X = old[j].co.X
                           /\ new[j].interpolation = old[j].interpolation
                           /\ new[j].co.Y = old[n + 1 - j].co.Y
                           /\ "handle_left" \in DOMAIN old[j] =>
                                 /\ new[j].handle_left.X = old[j].handle_left.X
                                 /\ new[j].handle_right.X = old[j].handle_right.X
                                 /\ new[j].handle_left.Y = old[n + 1 - j].handle_left.Y
                                 /\ new[j].handle_right.Y = old[n + 1 - j].handle_right.Y
      ]_vars

\* a transition of three points with handles was reversed: its first point
\* carries the values its last point had
C12_Witness ==
    /\ op.name = "Reverse_Transition_Triggered"
    /\ Len(CallsNamed(calls, "Transition.save")) = 1
    /\ LET new == CallsNamed(calls, "Transition.save")[1].args[1]["brightness"].Points
       IN  /\ Len(new) = 3
           /\ "handle_left" \in DOMAIN new[1]
           /\ new[1].co = [X |-> float(1), Y |-> float(-1)]
           /\ new[1].handle_left.Y = Rat(1, 4)
           /\ new[3].co = [X |-> float(72), Y |-> float(1)]

(***************************************************************************)
(* wheelEvent: the wheel turns the zoom slider while Control is held.      *)
(***************************************************************************)
\* the largest value the zoom slider takes
MaxZoom == 6

\* int(x) of a float of either sign: truncation toward zero
int_signed(x) == IF x.n >= 0 THEN x.n \div x.d ELSE -((-x.n) \div x.d)

\* a quotient that rounds down, as // does
wheel_steps_floor(delta) == delta \div 120

\* tick_scale = 120; steps = int(event.angleDelta().y() / tick_scale)
wheel_steps(delta) == int_signed(RDiv(float(delta), float(120)))

\* update_zoom(newValue), the slot of sliderZoom.valueChanged
update_zoom(newValue) ==
    <<Call("zoomScaleLabel.setText", <<newValue>>),
      Call("evaluateJavaScript.setScale", <<newValue>>)>>

\* QSlider.setValue(v): the value is kept within minimum .. maximum
setValue(slider, v) ==
    [slider EXCEPT !.value = IF v < slider.minimum THEN slider.minimum
                             ELSE IF v > slider.maximum THEN slider.maximum
                             ELSE v]

\* the calls of wheelEvent, update_zoom among them when the slider's value changes
wheelEvent_calls(control, delta) ==
    IF control
    THEN LET slider == window.sliderZoom
             v == slider.value - slider.pageStep * wheel_steps(delta)
             set == setValue(slider, v)
         IN  <<Call("sliderZoom.setValue", <<v>>)>>
                \o (IF set.value # slider.value THEN update_zoom(set.value) ELSE <<>>)
    ELSE <<Call("QWebView.wheelEvent", <<>>)>>

wheelEvent(control, delta) ==
    /\ op' = [name |-> "wheelEvent", control |-> control, delta |-> delta]
    /\ calls' = wheelEvent_calls(control, delta)
    /\ window' = IF control
                 THEN [window EXCEPT !.sliderZoom = setValue(@, calls'[1].args[1])]
                 ELSE window
    /\ raised' = FALSE
    /\ sync_calls' = sync_calls \o SelectSeq(calls', IsSync)
    /\ Quiet_project
    /\ UNCHANGED <<last_position_frames, new_item, item_type, drag, delivered, previews>>

\* event.angleDelta().y(): whole notches, parts of a notch, either direction
WheelDeltas == {-360, -120, -119, -15, 0, 15, 119, 120, 240}

Init_wheel ==
    /\ Init_fields
    /\ clips = <<>>
    /\ transitions = <<>>
    /\ fps = [num |-> 24, den |-> 1]
    /\ \E value \in 0 .. MaxZoom, pageStep \in {1, 2} :
          window = [MainWindow EXCEPT !.sliderZoom =
                       [value |-> value, minimum |-> 0, maximum |-> MaxZoom,
                        pageStep |-> pageStep]]

Next_wheel ==
    \E control \in BOOLEAN, delta \in WheelDeltas : wheelEvent(control, delta)

SpecWheel == Init_wheel /\ [][Next_wheel]_vars

\* C13: wheelEvent adjusts the zoom slider only while Control is held: it
\* calls setValue(value - pageStep * steps) once, steps being the wheel's
\* vertical angle delta divided by 120 and truncated toward zero, so a delta of
\* magnitude below 120 asks for the value unchanged, a positive delta for a
\* lower and a negative delta for a higher one; without Control the slider is
\* never changed and the event goes to the default handler of the web view.
C13_WheelZoom ==
    [][op'.name = "wheelEvent" =>
          LET delta == op'.delta
              slider == window.sliderZoom
              sets == CallsNamed(calls', "sliderZoom.setValue")
              magnitude == IF delta < 0 THEN -delta ELSE delta
              notches == CHOOSE k \in 0 .. magnitude :
                            120 * k <= magnitude /\ magnitude < 120 * (k + 1)
              steps == IF delta < 0 THEN -notches ELSE notches
          IN  IF op'.control
              THEN /\ Len(sets) = 1
                   /\ sets[1].args = <<slider.value - slider.pageStep * steps>>
                   /\ magnitude < 120 => sets[1].args[1] = slider.value
                   /\ delta >= 120 => sets[1].args[1] < slider.value
                   /\ delta <= -120 => sets[1].args[1] > slider.value
                   /\ CallsNamed(calls', "QWebView.wheelEvent") = <<>>
              ELSE /\ sets = <<>>
                   /\ window' = window
                   /\ calls' = <<[call |-> "QWebView.wheelEvent", args |-> <<>>]>>
      ]_vars

\* with Control held, a delta of -119 left the slider where it was although
\* a positive page step is set
C13_Witness ==
    /\ op.name = "wheelEvent"
    /\ op.control
    /\ op.delta = -119
    /\ window.sliderZoom.pageStep = 2
    /\ CallsNamed(calls, "sliderZoom.setValue") =
          <<[call |-> "sliderZoom.setValue", args |-> <<window.sliderZoom.value>>]>>

(***************************************************************************)
(* The context menus and the selection of the main window.                 *)
(***************************************************************************)
\* x in list
In(x, list) == \E i \in 1 .. Len(list) : list[i] = x

\* the list of the window that holds the selected items of a type
selection_of(type) ==
    IF type = "clip" THEN "selected_clips"
    ELSE IF type = "transition" THEN "selected_transitions"
    ELSE "selected_effects"

\* window.addSelection(item_id, item_type, clear_existing): the list of that
\* type is emptied first when clear_existing, and gets the id if it lacks it
window_addSelection(win, item_id, type, clear_existing) ==
    LET list == IF clear_existing THEN <<>> ELSE win[selection_of(type)]
    IN  [win EXCEPT ![selection_of(type)] =
            IF In(item_id, list) THEN list ELSE Append(list, item_id)]

\* window.removeSelection(item_id, item_type)
window_removeSelection(win, item_id, type) ==
    [win EXCEPT ![selection_of(type)] = SelectSeq(@, LAMBDA x : x # item_id)]

\* a menu that always selects the item alone
selected_alone(selected, id) == <<id>>

\* if id not in self.window.selected_...: self.window.selected_... = [id]
selected_after_menu(selected, id) == IF ~In(id, selected) THEN <<id>> ELSE selected

\* menu.popup(QCursor.pos()) of a menu with these entries
popup(entries) == Call("menu.popup", <<entries>>)

\* a handler that changes nothing but the window and makes these calls
MenuShown(name, id, cs, win) ==
    /\ op' = [name |-> name, id |-> id]
    /\ calls' = cs
    /\ window' = win
    /\ raised' = FALSE
    /\ sync_calls' = sync_calls \o SelectSeq(calls', IsSync)
    /\ Quiet_project
    /\ UNCHANGED <<last_position_frames, new_item, item_type, drag, delivered, previews>>

ShowEffectMenu(effect_id) ==
    MenuShown("ShowEffectMenu", effect_id,
              <<Call("window.addSelection", <<effect_id, "effect", TRUE>>),
                popup(<<"actionRemoveEffect">>)>>,
              window_addSelection(window, effect_id, "effect", TRUE))

ShowClipMenu(clip_id) ==
    LET entries == <<"Fade", "Layout", "Rotate", "actionRemoveClip">>
    IN  IF ~In(clip_id, window.selected_clips)
        THEN MenuShown("ShowClipMenu", clip_id,
                       <<Call("window.addSelection", <<clip_id, "clip">>), popup(entries)>>,
                       window_addSelection(window, clip_id, "clip", FALSE))
        ELSE MenuShown("ShowClipMenu", clip_id, <<popup(entries)>>, window)

ShowTransitionMenu(tran_id) ==
    LET entries == <<"Reverse Transition", "actionRemoveTransition">>
    IN  IF ~In(tran_id, window.selected_transitions)
        THEN MenuShown("ShowTransitionMenu", tran_id,
                       <<Call("window.addSelection", <<tran_id, "transition">>),
                         popup(entries)>>,
                       window_addSelection(window, tran_id, "transition", FALSE))
        ELSE MenuShown("ShowTransitionMenu", tran_id, <<popup(entries)>>, window)

ShowTrackMenu(layer_id) ==
    MenuShown("ShowTrackMenu", layer_id,
              <<popup(<<"actionAddTrackAbove", "actionAddTrackBelow", "actionRemoveTrack">>)>>,
              [window EXCEPT !.selected_tracks = selected_after_menu(@, layer_id)])

ShowMarkerMenu(marker_id) ==
    MenuShown("ShowMarkerMenu", marker_id, <<popup(<<"actionRemoveMarker">>)>>,
              [window EXCEPT !.selected_markers = selected_after_menu(@, marker_id)])

\* the slot addSelection(item_id, item_type, clear_existing) the timeline calls
addSelection(item_id, type, clear_existing) ==
    /\ MenuShown("addSelection", item_id,
                 <<Call("window.addSelection", <<item_id, type, clear_existing>>)>>,
                 window_addSelection(window, item_id, type, clear_existing))

\* the slot removeSelection(item_id, item_type)
removeSelection(item_id, type) ==
    /\ MenuShown("removeSelection", item_id,
                 <<Call("window.removeSelection", <<item_id, type>>)>>,
                 window_removeSelection(window, item_id, type))

\* the ids of the items a menu is opened on
MenuIds == {"1", "2"}

\* the selections of tracks and of markers the window may hold when a menu opens
Selections == {<<>>, <<"1">>, <<"2">>, <<"1", "2">>, <<"2", "1">>}

Init_menus ==
    /\ Init_fields
    /\ clips = <<>>
    /\ transitions = <<>>
    /\ fps = [num |-> 24, den |-> 1]
    /\ \E tracks \in Selections, markers \in Selections :
          window = [MainWindow EXCEPT !.selected_tracks = tracks,
                                      !.selected_markers = markers]

Next_menus ==
    \/ \E id \in MenuIds : ShowEffectMenu(id)
    \/ \E id \in MenuIds : ShowClipMenu(id)
    \/ \E id \in MenuIds : ShowTransitionMenu(id)
    \/ \E id \in MenuIds : ShowTrackMenu(id)
    \/ \E id \in MenuIds : ShowMarkerMenu(id)
    \/ \E id \in MenuIds, clear_existing \in BOOLEAN : addSelection(id, "clip", clear_existing)
    \/ \E id \in MenuIds : removeSelection(id, "clip")

SpecMenus == Init_menus /\ [][Next_menus]_vars

\* the calls of window.addSelection the step made
Selecting == CallsNamed(calls', "window.addSelection")

\* C14: opening a context menu on an item selects it without discarding a
\* selection that already contains it.  After ShowTrackMenu(id) the id is in
\* selected_tracks and after ShowMarkerMenu(id) in selected_markers: a list
\* that held the id is left as it was, any other becomes exactly [id].
\* ShowClipMenu and ShowTransitionMenu call the window's addSelection for the
\* id only when it is not in selected_clips / selected_transitions, and
\* ShowEffectMenu always calls addSelection with clear_existing true.
C14_MenuSelects ==
    [][ /\ op'.name = "ShowTrackMenu" =>
              /\ \E i \in 1 .. Len(window'.selected_tracks) :
                    window'.selected_tracks[i] = op'.id
              /\ IF \E i \in 1 .. Len(window.selected_tracks) :
                       window.selected_tracks[i] = op'.id
                 THEN window'.selected_tracks = window.selected_tracks
                 ELSE window'.selected_tracks = <<op'.id>>
              /\ Selecting = <<>>
        /\ op'.name = "ShowMarkerMenu" =>
              /\ \E i \in 1 .. Len(window'.selected_markers) :
                    window'.selected_markers[i] = op'.id
              /\ IF \E i \in 1 .. Len(window.selected_markers) :
                       window.selected_markers[i] = op'.id
                 THEN window'.selected_markers = window.selected_markers
                 ELSE window'.selected_markers = <<op'.id>>
              /\ Selecting = <<>>
        /\ op'.name = "ShowClipMenu" =>
              Selecting =
                 IF \E i \in 1 .. Len(window.selected_clips) :
                       window.selected_clips[i] = op'.id
                 THEN <<>>
                 ELSE <<[call |-> "window.addSelection", args |-> <<op'.id, "clip">>]>>
        /\ op'.name = "ShowTransitionMenu" =>
              Selecting =
                 IF \E i \in 1 .. Len(window.selected_transitions) :
                       window.selected_transitions[i] = op'.id
                 THEN <<>>
                 ELSE <<[call |-> "window.addSelection", args |-> <<op'.id, "transition">>]>>
        /\ op'.name = "ShowEffectMenu" =>
              Selecting = <<[call |-> "window.addSelection",
                             args |-> <<op'.id, "effect", TRUE>>]>>
      ]_vars

\* the track menu was opened on the second of two selected tracks, which
\* both stayed selected
C14_Witness ==
    /\ op = [name |-> "ShowTrackMenu", id |-> "2"]
    /\ window.selected_tracks = <<"1", "2">>

(***************************************************************************)
(* Effects dropped on a project of three clips on two layers.              *)
(***************************************************************************)
\* the effects of all clips together stay within this many
MaxEffects == 2

\* where JavaScript may place the drop: 0, on the first clip of layer 1 only,
\* on both its clips, and past every clip
EffectPositions == {float(0), Rat(1, 2), Rat(3, 2), float(5)}

EffectNames == {"blur", "negate", "wave"}

EffectProject ==
    <<ProjectClip("C1", 1, float(0), float(0), float(2)),
      ProjectClip("C2", 1, float(1), float(1), float(3)),
      ProjectClip("C3", 2, float(0), float(0), float(2))>>

\* a drag enters the widget over this project
dragEnterEvent_over(event, js_track, js_position) ==
    LET w == dragEnterEvent_world(World, new_item, event, js_track, js_position)
    IN  /\ effects_in(w.clips, 1) <= MaxEffects
        /\ op' = [name |-> "dragEnterEvent", item_type |-> item_type]
        /\ new_item' = (new_item \/ starts_item(new_item, event))
        /\ item_type' = IF starts_item(new_item, event) THEN event.html ELSE item_type
        /\ drag' = <<event>>
        /\ Becomes(w)
        /\ UNCHANGED <<fps, last_position_frames, window, delivered, previews>>

\* the drag of an effect is dropped where JavaScript says
dropEvent_at(js_track, js_position) ==
    /\ drag # <<>>
    /\ LET w == dropEvent_world(World, item_type, drag[1], js_track, js_position)
       IN  /\ effects_in(w.clips, 1) <= MaxEffects
           /\ op' = [name |-> "dropEvent", item_type |-> item_type,
                     js_track |-> js_track, js_position |-> js_position]
           /\ new_item' = IF w.raised THEN new_item ELSE FALSE
           /\ item_type' = IF w.raised THEN item_type ELSE None
           /\ drag' = <<>>
           /\ Becomes(w)
           /\ UNCHANGED <<fps, last_position_frames, window, delivered, previews>>

Init_effects ==
    /\ Init_widget
    /\ clips = EffectProject
    /\ transitions = <<>>
    /\ fps = [num |-> 24, den |-> 1]

Next_effects ==
    \/ \E name \in EffectNames, pos \in DragPlaces :
          dragEnterEvent_over(ListDrag("effect", <<name>>, pos), 0, float(0))
    \/ dragMoveEvent
    \/ \E js_track \in Tracks, js_position \in EffectPositions :
          dropEvent_at(js_track, js_position)

SpecEffects == Init_effects /\ [][Next_effects]_vars

\* the ids of the clips and of their effects
IdsIn(items) ==
    {items[i]["id"] : i \in 1 .. Len(items)}
      \cup UNION {{items[i]["effects"][j]["id"] : j \in 1 .. Len(items[i]["effects"])} :
                    i \in 1 .. Len(items)}

\* C15: addEffect applies a dropped effect to the clips under the drop point
\* and to nothing else.  With L = the track JavaScript returns + 1 and p = the
\* position it returns, each clip on layer L with
\* position <= p <= position + (end - start), or every clip on layer L when p
\* is 0, is saved once with exactly one new effect, of a fresh id, appended to
\* its effects; no other clip is saved; and when the effect's name is not one
\* of blur, brightness, chromakey, deinterlace, mask, negate, saturation, no
\* clip is saved or changed.
C15_EffectUnderDrop ==
    [][(op'.name = "dropEvent" /\ DragOfType("effect") /\ "js_track" \in DOMAIN op') =>
          LET L == op'.js_track + 1
              p == op'.js_position
              name == drag[1].text.text[1]
              under == {i \in 1 .. Len(clips) :
                          /\ clips[i]["layer"] = L
                          /\ \/ p = float(0)
                             \/ /\ RLe(clips[i]["position"], p)
                                /\ RLe(p, RAdd(clips[i]["position"],
                                               RSub(clips[i]["end"], clips[i]["start"])))}
              saves == CallsNamed(calls', "Clip.save")
              saved(i) == {k \in 1 .. Len(saves) : saves[k].args[1]["id"] = clips[i]["id"]}
              added(k) == saves[k].args[1]["effects"][Len(saves[k].args[1]["effects"])]
          IN  IF name \in {"blur", "brightness", "chromakey", "deinterlace", "mask",
                           "negate", "saturation"}
              THEN /\ Len(saves) = Cardinality(under)
                   /\ \A i \in 1 .. Len(clips) :
                         IF i \in under
                         THEN /\ Cardinality(saved(i)) = 1
                              /\ \A k \in saved(i) :
                                    /\ Len(saves[k].args[1]["effects"])
                                          = Len(clips[i]["effects"]) + 1
                                    /\ SubSeq(saves[k].args[1]["effects"], 1,
                                              Len(clips[i]["effects"])) = clips[i]["effects"]
                                    /\ added(k)["id"] \notin IdsIn(clips)
                                    /\ \A f \in DOMAIN saves[k].args[1] \ {"effects"} :
                                          saves[k].args[1][f] = clips[i][f]
                         ELSE saved(i) = {} /\ clips'[i] = clips[i]
                   /\ \A j, k \in 1 .. Len(saves) :
                         j # k => added(j)["id"] # added(k)["id"]
              ELSE saves = <<>> /\ clips' = clips
      ]_vars

\* one drop at position 0 of layer 1 gave each of its two clips an effect, and
\* the clip on layer 2 none
C15_Witness ==
    /\ op.name = "dropEvent"
    /\ Len(CallsNamed(calls, "Clip.save")) = 2
    /\ Len(clips[1]["effects"]) = 1
    /\ Len(clips[2]["effects"]) = 1
    /\ clips[1]["effects"][1]["id"] # clips[2]["effects"][1]["id"]
    /\ clips[3]["effects"] = <<>>

(***************************************************************************)
(* The two update slots together, on a project that already holds a clip.  *)
(***************************************************************************)
UpsertClips ==
    LET basic == [id : ClipIds, layer : {1}, position : {float(0)},
                  start : {float(0)}, end : {float(2), float(3)}]
    IN  basic \cup {With(b, "rotation", OnePoint(float(1), float(90))) : b \in basic}

UpsertTransitions ==
    [id : {"G1", "G2", "T9"}, layer : {1}, position : {float(0)},
     start : {float(0), float(1)}, end : {float(3)}]

Init_upsert ==
    /\ Init_widget
    /\ clips \in {<<>>, <<ProjectClip("C1", 1, float(0), float(0), float(2))>>}
    /\ transitions = <<>>
    /\ fps = [num |-> 24, den |-> 1]

Next_upsert ==
    \/ \E d \in UpsertClips, only_basic_props \in BOOLEAN :
          update_clip_data_called(JsonText(d), only_basic_props)
    \/ \E d \in UpsertTransitions : update_transition_data_called(JsonText(d))

SpecUpsert == Init_upsert /\ [][Next_upsert]_vars

\* no two items of the list have the same id
UniqueIds(items) ==
    \A i, j \in 1 .. Len(items) : items[i]["id"] = items[j]["id"] => i = j

\* the list `after` is the list `items` after one save of `saved`, a record
\* given under `id`: the item of that id updated in place, or one item added
Upserted(items, after, id, saved) ==
    /\ UniqueIds(after)
    /\ \A i \in 1 .. Len(items) :
          /\ i <= Len(after)
          /\ after[i]["id"] = items[i]["id"]
          /\ items[i]["id"] # id => after[i] = items[i]
          /\ items[i]["id"] = id => \A k \in DOMAIN saved : after[i][k] = saved[k]
    /\ Len(after) = Len(items) + (IF \E i \in 1 .. Len(items) : items[i]["id"] = id
                                  THEN 0 ELSE 1)

LastPoints(points, n) == SubSeq(points, Len(points) - n + 1, Len(points))

\* C17: for a fade in-and-out (MENU_FADE_IN_OUT_FAST or MENU_FADE_IN_OUT_SLOW)
\* on a clip of any length, the four keyframes appended by Fade_Triggered are
\* in non-decreasing frame order and all lie within [0, end_of_clip]: the
\* fade-in starts no later than it ends and ends no later than the fade-out
\* begins.
C17_FadeInOutOrdered ==
    [][(Faded' /\ op'.action \in {MENU_FADE_IN_OUT_FAST, MENU_FADE_IN_OUT_SLOW}) =>
          LET saves == CallsNamed(calls', "Clip.save")
              end_of_clip == RMul(clips[get(clips, op'.clip_id)]["end"],
                                  RDiv(float(fps.num), float(fps.den)))
              added == LastPoints(saves[1].args[1]["alpha"].Points, 4)
          IN  /\ \A i \in 1 .. 3 : RLe(added[i].co.X, added[i + 1].co.X)
              /\ \A i \in 1 .. 4 : /\ RLe(float(0), added[i].co.X)
                                   /\ RLe(added[i].co.X, end_of_clip)
      ]_vars

====
